---- MODULE Spec2Model ----
(***************************************************************************)
(* Model of the odin CLI's multi-tenant login (commands/login.ts,          *)
(* commands/login/login-cloud.ts, commands/login/utils.ts) and of the      *)
(* credential files it shares with the proxy hooks of "odin serve".        *)
(*                                                                         *)
(* Strings are sequences of symbols.  A symbol is a run of characters that *)
(* contains none of the delimiters the code splits on ('&', '=', '#'), so  *)
(* String.split, String.replace and template literals are modelled on the  *)
(* symbol sequence exactly as the code applies them to the characters.     *)
(***************************************************************************)
EXTENDS Integers, Sequences, FiniteSets, TLC

\* ------------------------------------------------------------------ bounds
MaxSamples == 3      \* setInterval callbacks started by one waitForMneCookies
MaxPairs   == 4      \* key=value pairs in a redirect fragment parsed on its own

\* ----------------------------------------------------------- JS primitives
\* The JavaScript value undefined (distinct from every string of the model).
Undefined == <<"<undefined>">>

\* Template-literal interpolation `${v}`.
ToStr(v) == IF v = Undefined THEN <<"undefined">> ELSE v

\* String.prototype.split(d) for a one-character delimiter d.
RECURSIVE Split(_, _)
Split(s, d) ==
    IF \E i \in 1..Len(s) : s[i] = d
      THEN LET i == CHOOSE j \in 1..Len(s) :
                       /\ s[j] = d
                       /\ \A k \in 1..(j - 1) : s[k] # d
           IN  <<SubSeq(s, 1, i - 1)>> \o Split(SubSeq(s, i + 1, Len(s)), d)
      ELSE <<s>>

\* Array.prototype.join(sep).
RECURSIVE Join(_, _)
Join(parts, sep) ==
    IF Len(parts) = 0 THEN <<>>
    ELSE IF Len(parts) = 1 THEN parts[1]
    ELSE parts[1] \o sep \o Join(Tail(parts), sep)

\* ------------------------------------------------------- credential files
\* A file of os.tmpdir(): absent, or present with its bytes.
AbsentFile    == [exists |-> FALSE, data |-> <<>>]
FileOf(bytes) == [exists |-> TRUE, data |-> bytes]

\* JSON.stringify({authorizationHeader: h}) + '\n', as fs-extra writes it.
JsonAuthorizationHeader(h) ==
    <<"{", "\"authorizationHeader\"", ":", "\"">> \o h \o <<"\"", "}", "\n">>

\* content of authorizationheader.json for a token
TokenFileContent_SwapMutant(token) ==
    JsonAuthorizationHeader(ToStr(token.access_token) \o <<" ">> \o ToStr(token.token_type))

TokenFileContent(token) ==
    JsonAuthorizationHeader(ToStr(token.token_type) \o <<" ">> \o ToStr(token.access_token))

\* content of cookieheader.json for a cookie array
CookieFileContent_SeparatorMutant(cookies) ==
    Join([i \in 1..Len(cookies) |->
             cookies[i].name \o <<"=">> \o cookies[i].value], <<";", " ">>)

CookieFileContent(cookies) ==
    Join([i \in 1..Len(cookies) |->
             cookies[i].name \o <<"=">> \o cookies[i].value \o <<";">>], <<" ">>)

\* ------------------------------------------------- bearer-token capture
\* hash.replace(/^#/, '')
StripHash(hash) ==
    IF Len(hash) > 0 /\ hash[1] = "#" THEN Tail(hash) ELSE hash

KeyValue_RestMutant(kv) ==
    LET parts == Split(kv, "=")
    IN  [key |-> parts[1],
         value |-> IF Len(parts) >= 2 THEN SubSeq(kv, Len(parts[1]) + 2, Len(kv)) ELSE Undefined]

\* const [key, value] = keyvalueString.split('='): the first two parts
KeyValue(kv) ==
    LET parts == Split(kv, "=")
    IN  [key |-> parts[1], value |-> IF Len(parts) >= 2 THEN parts[2] ELSE Undefined]

AddPair_FirstWinsMutant(params, kv) ==
    LET key   == KeyValue(kv).key
        value == KeyValue(kv).value
    IN  IF key \in DOMAIN params
          THEN params
          ELSE [k \in (DOMAIN params) \cup {key} |-> IF k = key THEN value ELSE params[k]]

\* One step of the reduce: const [key, value] = kv.split('='); {...params, [key]: value}
AddPair(params, kv) ==
    LET key   == KeyValue(kv).key
        value == KeyValue(kv).value
    IN  [k \in (DOMAIN params) \cup {key} |-> IF k = key THEN value ELSE params[k]]

RECURSIVE ReducePairs(_, _)
ReducePairs(params, pairs) ==
    IF Len(pairs) = 0 THEN params
    ELSE ReducePairs(AddPair(params, Head(pairs)), Tail(pairs))

EmptyParams == [k \in {} |-> Undefined]

\* redirectParams of waitForAccessToken for the fragment of the redirect
RedirectParams(hash) == ReducePairs(EmptyParams, Split(StripHash(hash), "&"))

\* property read of a JS object: undefined when the key is not there
Prop(obj, key) == IF key \in DOMAIN obj THEN obj[key] ELSE Undefined

\* the Token the caller reads out of redirectParams (cast, no validation)
waitForAccessToken(hash) ==
    LET p == RedirectParams(hash)
    IN  [access_token |-> Prop(p, <<"access_token">>),
         token_type   |-> Prop(p, <<"token_type">>),
         expires_in   |-> Prop(p, <<"expires_in">>)]

\* --------------------------------------------------- browser acquisition
\* The JavaScript value null.
Null == <<"<null>">>

\* Number.NaN as parseInt returns it, next to the integers.
NaN    == [nan |-> TRUE, n |-> 0]
Num(n) == [nan |-> FALSE, n |-> n]

DigitChars == {"0", "1", "2", "3", "4", "5", "6", "7", "8", "9"}

DigitVal(c) ==
    CASE c = "0" -> 0 [] c = "1" -> 1 [] c = "2" -> 2 [] c = "3" -> 3
      [] c = "4" -> 4 [] c = "5" -> 5 [] c = "6" -> 6 [] c = "7" -> 7
      [] c = "8" -> 8 [] c = "9" -> 9

\* value of the longest prefix of decimal digits of s, acc carrying the value so far
RECURSIVE DigitPrefix(_, _, _)
DigitPrefix(s, acc, seen) ==
    IF Len(s) > 0 /\ Head(s) \in DigitChars
      THEN DigitPrefix(Tail(s), 10 * acc + DigitVal(Head(s)), TRUE)
      ELSE [seen |-> seen, n |-> acc]

\* s without its leading white space
SkipWhiteSpace(s) ==
    IF \E i \in 1..Len(s) : s[i] # " "
      THEN SubSeq(s, CHOOSE i \in 1..Len(s) : s[i] # " " /\ \A j \in 1..(i - 1) : s[j] = " ",
                  Len(s))
      ELSE <<>>

\* parseInt(s, 10) on a string given as its characters
parseInt(s) ==
    LET t    == SkipWhiteSpace(s)
        neg  == Len(t) > 0 /\ Head(t) = "-"
        body == IF Len(t) > 0 /\ Head(t) \in {"-", "+"} THEN Tail(t) ELSE t
        d    == DigitPrefix(body, 0, FALSE)
    IN  IF ~d.seen THEN NaN ELSE Num(IF neg THEN 0 - d.n ELSE d.n)

DefaultDebugPort == 9222

getChromeDebugPort_InclusiveMutant(portEnv) ==
    IF portEnv # Undefined /\ portEnv # <<>>
      THEN LET port == parseInt(portEnv)
           IN  IF ~port.nan /\ port.n >= 0 /\ port.n <= 65536
                 THEN port.n
                 ELSE DefaultDebugPort
      ELSE DefaultDebugPort

\* portEnv: process.env.CHROME_DEBUG_PORT, Undefined when unset
getChromeDebugPort(portEnv) ==
    IF portEnv # Undefined /\ portEnv # <<>>
      THEN LET port == parseInt(portEnv)
           IN  IF ~port.nan /\ port.n > 0 /\ port.n < 65536
                 THEN port.n
                 ELSE DefaultDebugPort
      ELSE DefaultDebugPort

\* lookup: outcome of dns.promises.lookup('host.docker.internal')
getDockerHostIP(lookup) == IF lookup.ok THEN lookup.address ELSE Null

\* probe: outcome of fetch(http://host:port/json/version) with the 2 s timeout
getBrowserWebSocketEndpoint(probe) ==
    IF probe.thrown THEN Null                      \* timeout, refused, bad JSON
    ELSE IF ~probe.ok THEN Null                    \* non-2xx answer
    ELSE IF probe.webSocketDebuggerUrl \in {Undefined, <<>>} THEN Null
    ELSE probe.webSocketDebuggerUrl

ConnectFailedText == "Failed to connect to Chrome remote debugging on host"
NotAvailableText  == "Chrome remote debugging is not available on host"

\* new Error(`<text> (${dockerHostIP}:${port}). Please ensure ...`)
HostError(text, hostIP, port) ==
    [kind |-> "error", text |-> text, host |-> hostIP, port |-> port]

\* what puppeteer.launch(launchOptions) yields
LaunchResult(launch) ==
    IF launch = "ok"
      THEN [kind |-> "launched", text |-> "", host |-> Null, port |-> 0]
      ELSE [kind |-> "error", text |-> "puppeteer.launch failed", host |-> Null, port |-> 0]

AttachedResult(hostIP, port) ==
    [kind |-> "attached", text |-> "", host |-> hostIP, port |-> port]

getOrLaunchBrowser_FallbackMutant(lookup, portEnv, probe, connect, launch) ==
    LET dockerHostIP == getDockerHostIP(lookup)
        port == getChromeDebugPort(portEnv)
        webSocketEndpoint == getBrowserWebSocketEndpoint(probe)
    IN  IF dockerHostIP # Null /\ webSocketEndpoint # Null
          THEN IF connect = "ok"
                 THEN AttachedResult(dockerHostIP, port)
                 ELSE HostError(ConnectFailedText, dockerHostIP, port)
          ELSE LaunchResult(launch)

getOrLaunchBrowser(lookup, portEnv, probe, connect, launch) ==
    LET dockerHostIP == getDockerHostIP(lookup)
    IN  IF dockerHostIP # Null
          THEN LET port == getChromeDebugPort(portEnv)
                   webSocketEndpoint == getBrowserWebSocketEndpoint(probe)
               IN  IF webSocketEndpoint # Null
                     THEN IF connect = "ok"
                            THEN AttachedResult(dockerHostIP, port)
                            ELSE HostError(ConnectFailedText, dockerHostIP, port)
                     ELSE HostError(NotAvailableText, dockerHostIP, port)
          ELSE LaunchResult(launch)

\* the environments the acquisition is run in
HostIP == <<"192.168.65.2">>
Lookups == {[ok |-> FALSE, address |-> Null], [ok |-> TRUE, address |-> HostIP]}
PortEnvs == {Undefined, <<"9", "3", "3", "3">>, <<"0">>}
WsUrl == <<"ws://192.168.65.2:9333/devtools/browser/1">>
Probes ==
    {[thrown |-> TRUE,  ok |-> FALSE, webSocketDebuggerUrl |-> Undefined],
     [thrown |-> FALSE, ok |-> FALSE, webSocketDebuggerUrl |-> Undefined],
     [thrown |-> FALSE, ok |-> TRUE,  webSocketDebuggerUrl |-> Undefined],
     [thrown |-> FALSE, ok |-> TRUE,  webSocketDebuggerUrl |-> WsUrl]}
Outcomes == {"ok", "fail"}

\* ------------------------------------------------------ cookie polling
Cookie(name, value, path) == [name |-> <<name>>, value |-> <<value>>, path |-> <<path>>]

mneSessionCookie_OrMutant(cookie) ==
    cookie.path = <<"/mne">> \/ cookie.name = <<"JSESSIONID">>

mneSessionCookie(cookie) ==
    cookie.path = <<"/mne">> /\ cookie.name = <<"JSESSIONID">>

\* cookies.find(mneSessionCookie) is truthy
HasSessionCookie(cookies) == \E i \in 1..Len(cookies) : mneSessionCookie(cookies[i])

\* what one Network.getAllCookies read can yield
CookieSets ==
    {<<Cookie("JSESSIONID", "root", "/"), Cookie("X", "2", "/mne")>>,
     <<Cookie("X", "1", "/"), Cookie("JSESSIONID", "abc", "/mne")>>,
     <<Cookie("JSESSIONID", "def", "/mne"), Cookie("X", "1", "/")>>}

ReadCauses == {"transient: page is navigating", "unrecoverable: browser closed"}

SampleOutcomes ==
    {[ok |-> TRUE, cookies |-> c, cause |-> "none"] : c \in CookieSets}
      \cup {[ok |-> FALSE, cookies |-> <<>>, cause |-> e] : e \in ReadCauses}

NoSample == [ok |-> FALSE, cookies |-> <<>>, cause |-> "no sample yet"]

NoPromise == [state |-> "none", value |-> <<>>, reason |-> "none"]
Pending   == [state |-> "pending", value |-> <<>>, reason |-> "none"]

\* resolvePromise / rejectPromise: only a pending promise changes
Resolve(p, cookies) ==
    IF p.state = "pending" THEN [state |-> "resolved", value |-> cookies, reason |-> "none"] ELSE p

Reject_OverwriteMutant(p, cause) == [state |-> "rejected", value |-> <<>>, reason |-> cause]

Reject(p, cause) ==
    IF p.state = "pending" THEN [state |-> "rejected", value |-> <<>>, reason |-> cause] ELSE p

\* ------------------------------------------------------------ odin.json
RoutePaths == {"/mne", "/m3api-rest", "/ca", "/ODIN_DEV_TENANT"}

NoRewrite == <<>>
ObjectRoute(target, pathRewrite) == [kind |-> "object", target |-> target, pathRewrite |-> pathRewrite]
StringRoute(target) == [kind |-> "string", target |-> target, pathRewrite |-> NoRewrite]

IonApiUrl == <<"https://ion.example", "/", "TENANT">>
M3Url     == <<"https://m3.example">>
OldTarget == <<"https://old.example">>

MapConfig(routes) == [proxy |-> "map", routes |-> routes]
NoProxyConfig     == [proxy |-> "undefined", routes |-> [r \in RoutePaths |-> StringRoute(<<>>)]]

PathConfigThrows_StringPassesMutant(odinConfig, proxyPath) == odinConfig.proxy # "map"

\* getPathConfig throws (Error for a string route or a missing/array proxy)
PathConfigThrows(odinConfig, proxyPath) ==
    \/ odinConfig.proxy # "map"
    \/ odinConfig.routes[proxyPath].kind # "object"

\* setTarget on the in-memory configuration
setTarget(odinConfig, proxyPath, target) ==
    [odinConfig EXCEPT !.routes[proxyPath].target = target]

\* the (path, target) pairs updateOdinConfig sets, in the order of the code
Retargets(m3Url) ==
    IF m3Url # Undefined
      THEN << <<"/ODIN_DEV_TENANT", IonApiUrl>>, <<"/m3api-rest", m3Url>>,
              <<"/mne", m3Url>>, <<"/ca", m3Url>> >>
      ELSE << <<"/ODIN_DEV_TENANT", IonApiUrl>>, <<"/m3api-rest", IonApiUrl>> >>

RECURSIVE ApplyRetargets(_, _)
ApplyRetargets(odinConfig, todo) ==
    IF Len(todo) = 0 THEN odinConfig
    ELSE ApplyRetargets(setTarget(odinConfig, Head(todo)[1], Head(todo)[2]), Tail(todo))

\* updateOdinConfig: thrown, or the configuration handed to writeConfig
updateOdinConfig(odinConfig, m3Url) ==
    LET todo == Retargets(m3Url)
    IN  IF \E i \in 1..Len(todo) : PathConfigThrows(odinConfig, todo[i][1])
          THEN [thrown |-> TRUE, config |-> odinConfig]
          ELSE [thrown |-> FALSE,
                config |-> [ApplyRetargets(odinConfig, todo) EXCEPT
                               !.routes["/ODIN_DEV_TENANT"].pathRewrite =
                                   <<"^/ODIN_DEV_TENANT", "">>]]

\* odin.json files a project can start with
ScaffoldedConfig == MapConfig([r \in RoutePaths |-> ObjectRoute(OldTarget, NoRewrite)])

OdinConfigs ==
    {ScaffoldedConfig,
     MapConfig([r \in RoutePaths |->
                   IF r = "/mne" THEN StringRoute(OldTarget) ELSE ObjectRoute(OldTarget, NoRewrite)]),
     NoProxyConfig}

\* ------------------------------------------------------- the proxy hooks
\* JSON.parse of authorizationheader.json and read of .authorizationHeader
ParsesAsAuthorizationJson(data) ==
    /\ Len(data) >= 7
    /\ SubSeq(data, 1, 4) = <<"{", "\"authorizationHeader\"", ":", "\"">>
    /\ SubSeq(data, Len(data) - 2, Len(data)) = <<"\"", "}", "\n">>

AuthorizationHeaderOf(data) == SubSeq(data, 5, Len(data) - 3)

\* the request as the hook hands it on: forwarded with a header, forwarded
\* unmodified, or failed for this request only
Forwarded(header)  == [outcome |-> "forwarded", header |-> header]
InjectionFailed    == [outcome |-> "CorruptCredentialFile", header |-> Undefined]

setIONAPIToken_ThrowOnMissingMutant(file) ==
    IF ~file.exists THEN InjectionFailed
    ELSE IF ~ParsesAsAuthorizationJson(file.data) THEN InjectionFailed
    ELSE Forwarded(AuthorizationHeaderOf(file.data))

setIONAPIToken(file) ==
    IF ~file.exists THEN Forwarded(Undefined)
    ELSE IF ~ParsesAsAuthorizationJson(file.data) THEN InjectionFailed
    ELSE Forwarded(AuthorizationHeaderOf(file.data))

setMNECookies(file) ==
    IF ~file.exists THEN Forwarded(Undefined) ELSE Forwarded(file.data)

\* ---------------------------------------------------------------- state
VARIABLES
    pc,          \* position of the running login() / loginCloud() invocation
    flavour,     \* "login" or "cloud"
    options,     \* LoginOptions of the invocation
    browser,     \* "none", "open", "closed"
    acq,         \* inputs and result of the last getOrLaunchBrowser call
    pageUrl,     \* page.url()
    hash,        \* fragment of the observed redirect
    token,       \* value of `token` in login()
    cookies,     \* value of `cookies` in login() / loginCloud()
    err,         \* what the invocation rejected with
    bearerFile,  \* os.tmpdir()/authorizationheader.json
    cookieFile,  \* os.tmpdir()/cookieheader.json
    odinJson,    \* odin.json
    timer,       \* the setInterval of waitForMneCookies is active
    promise,     \* the promise waitForMneCookies returned
    started,     \* interval callbacks started
    inflight,    \* number of callbacks awaiting getAllCookies
    lastSample,  \* outcome of the callback that finished last
    history,     \* what the invocation did: store before it, arguments of its writes
    lastReq,     \* the last request the serve process proxied
    proc,        \* the CLI process that runs the invocation: running or exited
    call         \* a helper called on its own: its arguments and what it returned

vars == <<pc, flavour, options, browser, acq, pageUrl, hash, token, cookies, err,
          bearerFile, cookieFile, odinJson, timer, promise, started, inflight, lastSample,
          history, lastReq, proc, call>>

loginVars == <<flavour, options>>
pollVars  == <<timer, promise, started, inflight, lastSample>>
storeVars == <<bearerFile, cookieFile>>

NoToken == [access_token |-> Undefined, token_type |-> Undefined, expires_in |-> Undefined]
NoAcq   == [called |-> FALSE]
NoErr   == [type |-> "none", cause |-> "none"]
Err(type, cause) == [type |-> type, cause |-> cause]
NoCall  == [fn |-> "none"]
NoProc  == [state |-> "none", exitCode |-> 0, stderr |-> <<>>, help |-> FALSE]
Running == [state |-> "running", exitCode |-> 0, stderr |-> <<>>, help |-> FALSE]
NoReq   == [kind |-> "none", slot |-> AbsentFile, result |-> Forwarded(Undefined)]

LoginOptionsSet == [m3Url : {Undefined, M3Url}, updateConfig : BOOLEAN]

AuthUrl   == <<"https://sso.example/as/authorization.oauth2?client_id=c&redirect_uri=r&response_type=token">>
PortalUrl == <<"https://portal.example", "/", "TENANT">>
Blank     == <<"about:blank">>
MneUrl(m3Url) == m3Url \o <<"/mne">>

LoginUrl(fl) == IF fl = "login" THEN AuthUrl ELSE PortalUrl

\* m3Url the flavour navigates to: options.m3Url, or odinConfig.m3Url for loginCloud
SessionUrl == IF flavour = "login" THEN options.m3Url ELSE M3Url

\* fragments the identity provider's redirect can carry
Hashes ==
    {<<"#", "access_token", "=", "t1", "&", "token_type", "=", "Bearer", "&", "expires_in", "=", "3600">>,
     <<"#", "token_type", "=", "Bearer", "&", "expires_in", "=", "60", "&", "access_token", "=", "t2">>,
     <<"#", "token_type", "=", "Bearer", "&", "expires_in", "=", "3600">>,
     <<"#", "access_token", "=", "t1">>}

Init ==
    /\ pc = "idle"
    /\ flavour = "login"
    /\ options = [m3Url |-> Undefined, updateConfig |-> FALSE]
    /\ browser = "none"
    /\ acq = NoAcq
    /\ pageUrl = Blank
    /\ hash = <<>>
    /\ token = NoToken
    /\ cookies = <<>>
    /\ err = NoErr
    /\ bearerFile = AbsentFile
    /\ cookieFile = AbsentFile
    /\ odinJson \in OdinConfigs
    /\ timer = FALSE
    /\ promise = NoPromise
    /\ started = 0
    /\ inflight = 0
    /\ lastSample = NoSample
    /\ history = [bearerBefore |-> AbsentFile, cookieBefore |-> AbsentFile,
                  tokenWritten |-> FALSE, lastToken |-> NoToken,
                  cookiesWritten |-> FALSE, lastCookies |-> <<>>]
    /\ lastReq = NoReq
    /\ proc = NoProc
    /\ call = NoCall

\* the invocation rejects
Fail(type, cause) ==
    /\ pc' = "failed"
    /\ err' = Err(type, cause)

\* ------------------------------------------------------------ login steps
\* A new invocation: readIonApiConfig (and readConfig for loginCloud).
StartLogin ==
    /\ pc \in {"idle", "done", "failed"}
    /\ \E fl \in {"login", "cloud"}, o \in LoginOptionsSet, readOk \in BOOLEAN :
          /\ fl = "cloud" => o = [m3Url |-> Undefined, updateConfig |-> FALSE]
          /\ flavour' = fl
          /\ options' = o
          /\ IF readOk THEN pc' = "acquire" /\ err' = NoErr
                       ELSE Fail("ConfigReadFailed", "ion api file unreadable")
    /\ browser' = "none"
    /\ acq' = NoAcq
    /\ pageUrl' = Blank
    /\ hash' = <<>>
    /\ token' = NoToken
    /\ cookies' = <<>>
    /\ timer' = FALSE
    /\ promise' = NoPromise
    /\ started' = 0
    /\ inflight' = 0
    /\ lastSample' = NoSample
    /\ history' = [history EXCEPT !.bearerBefore = bearerFile, !.cookieBefore = cookieFile]
    /\ proc' = Running
    /\ UNCHANGED <<storeVars, odinJson, lastReq, call>>

\* const browser = await getOrLaunchBrowser({...})
AcquireBrowser ==
    /\ pc = "acquire"
    /\ \E lookup \in Lookups, portEnv \in PortEnvs, probe \in Probes,
          connect \in Outcomes, launch \in Outcomes :
          LET r == getOrLaunchBrowser(lookup, portEnv, probe, connect, launch)
          IN  /\ acq' = [called |-> TRUE, lookup |-> lookup, portEnv |-> portEnv,
                         probe |-> probe, connect |-> connect, result |-> r]
              /\ IF r.kind = "error"
                   THEN Fail("BrowserUnavailable", r.text) /\ UNCHANGED browser
                   ELSE pc' = "page" /\ browser' = "open" /\ UNCHANGED err
    /\ UNCHANGED <<loginVars, call, proc, pageUrl, hash, token, cookies, storeVars, odinJson,
                   pollVars, history, lastReq>>

\* let page = (await browser.pages())[0]; if (!page) page = await browser.newPage()
PrimaryPage ==
    /\ pc = "page"
    /\ \E u \in {LoginUrl(flavour), Blank} : pageUrl' = u
    /\ pc' = "navigate"
    /\ acq' = NoAcq
    /\ UNCHANGED <<loginVars, call, proc, browser, hash, token, cookies, err, storeVars, odinJson,
                   pollVars, history, lastReq>>

NavigateIfNeeded_NeverMutant ==
    /\ pc = "navigate"
    /\ pc' = "waitCredential"
    /\ UNCHANGED <<pageUrl, err>>
    /\ UNCHANGED <<loginVars, call, proc, browser, acq, hash, token, cookies, storeVars, odinJson,
                   pollVars, history, lastReq>>

\* if (page.url() !== url) await page.goto(url, { waitUntil: 'networkidle2' })
NavigateIfNeeded ==
    /\ pc = "navigate"
    /\ IF pageUrl # LoginUrl(flavour)
         THEN \E o \in Outcomes :
                 IF o = "ok"
                   THEN pageUrl' = LoginUrl(flavour) /\ pc' = "waitCredential" /\ UNCHANGED err
                   ELSE Fail("NavigationTimeout", "page.goto rejected") /\ UNCHANGED pageUrl
         ELSE pc' = "waitCredential" /\ UNCHANGED <<pageUrl, err>>
    /\ UNCHANGED <<loginVars, call, proc, browser, acq, hash, token, cookies, storeVars, odinJson,
                   pollVars, history, lastReq>>

\* const token = await waitForAccessToken(page, config)
WaitForAccessToken ==
    /\ pc = "waitCredential"
    /\ flavour = "login"
    /\ \/ \E h \in Hashes :
            /\ hash' = h
            /\ token' = waitForAccessToken(h)
            /\ pc' = "writeToken"
            /\ UNCHANGED err
       \/ /\ Fail("TokenCaptureFailed", "page.waitForResponse rejected")
          /\ UNCHANGED <<hash, token>>
    /\ UNCHANGED <<loginVars, call, proc, browser, acq, pageUrl, cookies, storeVars, odinJson,
                   pollVars, history, lastReq>>

\* await page.waitForSelector("portal-root", { visible: true, timeout: 0 })
WaitForPortalRoot ==
    /\ pc = "waitCredential"
    /\ flavour = "cloud"
    /\ \/ pc' = "gotoMne" /\ UNCHANGED err
       \/ Fail("PortalWaitFailed", "page.waitForSelector rejected")
    /\ UNCHANGED <<loginVars, call, proc, browser, acq, pageUrl, hash, token, cookies, storeVars,
                   odinJson, pollVars, history, lastReq>>

AfterToken_SkipSessionMutant ==
    IF options.updateConfig THEN "updateConfig" ELSE "close"

\* where login() goes on after writeTokenToFile
AfterToken ==
    IF options.m3Url # Undefined THEN "gotoMne"
    ELSE IF options.updateConfig THEN "updateConfig" ELSE "close"

AfterCookies_AlwaysUpdateMutant == "updateConfig"

\* where login() / loginCloud() goes on after writeCookiesToFile
AfterCookies ==
    IF flavour = "login" /\ options.updateConfig THEN "updateConfig" ELSE "close"

\* writeTokenToFile, first half: fs.writeJsonSync opens the path with flag 'w'
\* (create or truncate); the open can fail (EACCES, ENOENT)
WriteTokenOpen ==
    /\ pc = "writeToken"
    /\ \/ bearerFile' = FileOf(<<>>) /\ pc' = "writeTokenData" /\ UNCHANGED err
       \/ Fail("CredentialWriteFailed", "open authorizationheader.json") /\ UNCHANGED bearerFile
    /\ UNCHANGED <<loginVars, call, proc, browser, acq, pageUrl, hash, token, cookies, cookieFile,
                   odinJson, pollVars, history, lastReq>>

WriteTokenData_AppendMutant ==
    /\ pc = "writeTokenData"
    /\ bearerFile' = FileOf(history.bearerBefore.data \o TokenFileContent(token))
    /\ history' = [history EXCEPT !.tokenWritten = TRUE, !.lastToken = token]
    /\ pc' = AfterToken
    /\ UNCHANGED <<loginVars, call, proc, browser, acq, pageUrl, hash, token, cookies, err, cookieFile,
                   odinJson, pollVars, lastReq>>

\* writeTokenToFile, second half: the content is written and the call returns
WriteTokenData ==
    /\ pc = "writeTokenData"
    /\ bearerFile' = FileOf(TokenFileContent(token))
    /\ history' = [history EXCEPT !.tokenWritten = TRUE, !.lastToken = token]
    /\ pc' = AfterToken
    /\ UNCHANGED <<loginVars, call, proc, browser, acq, pageUrl, hash, token, cookies, err, cookieFile,
                   odinJson, pollVars, lastReq>>

\* await page.goto(`${m3Url}/mne`); then waitForMneCookies creates its promise
\* and starts the interval
GotoMne ==
    /\ pc = "gotoMne"
    /\ \/ /\ pageUrl' = MneUrl(SessionUrl)
          /\ promise' = Pending
          /\ timer' = TRUE
          /\ pc' = "poll"
          /\ UNCHANGED err
       \/ /\ Fail("NavigationTimeout", "page.goto rejected")
          /\ UNCHANGED <<pageUrl, promise, timer>>
    /\ UNCHANGED <<loginVars, call, proc, browser, acq, hash, token, cookies, storeVars, odinJson,
                   started, inflight, lastSample, history, lastReq>>

\* ------------------------------------------------------- waitForMneCookies
\* the interval fires: the async callback starts and awaits getAllCookies(page)
Tick ==
    /\ timer
    /\ started < MaxSamples
    /\ started' = started + 1
    /\ inflight' = inflight + 1
    /\ UNCHANGED <<pc, loginVars, call, proc, browser, acq, pageUrl, hash, token, cookies, err,
                   storeVars, odinJson, timer, promise, lastSample, history, lastReq>>

IntervalCallback_NoClearMutant(o) ==
    IF o.ok
      THEN IF HasSessionCookie(o.cookies)
             THEN timer' = FALSE /\ promise' = Resolve(promise, o.cookies)
             ELSE UNCHANGED <<timer, promise>>
      ELSE UNCHANGED timer /\ promise' = Reject(promise, o.cause)

\* the rest of the callback once getAllCookies settled with outcome o:
\* try { find; if found: clearInterval, resolve } catch { clearInterval, reject }
IntervalCallback(o) ==
    IF o.ok
      THEN IF HasSessionCookie(o.cookies)
             THEN timer' = FALSE /\ promise' = Resolve(promise, o.cookies)
             ELSE UNCHANGED <<timer, promise>>
      ELSE timer' = FALSE /\ promise' = Reject(promise, o.cause)

\* getAllCookies of callback id settles and the callback runs to its end
SampleDone ==
    /\ inflight > 0
    /\ \E o \in SampleOutcomes :
          /\ inflight' = inflight - 1
          /\ lastSample' = o
          /\ IntervalCallback(o)
    /\ UNCHANGED <<pc, loginVars, call, proc, browser, acq, pageUrl, hash, token, cookies, err,
                   storeVars, odinJson, started, history, lastReq>>

\* const cookies = await waitForMneCookies(page): the caller resumes
AwaitCookies ==
    /\ pc = "poll"
    /\ promise.state \in {"resolved", "rejected"}
    /\ IF promise.state = "resolved"
         THEN cookies' = promise.value /\ pc' = "writeCookies" /\ UNCHANGED err
         ELSE Fail("CookieCaptureFailed", promise.reason) /\ UNCHANGED cookies
    /\ UNCHANGED <<loginVars, call, proc, browser, acq, pageUrl, hash, token, storeVars, odinJson,
                   pollVars, history, lastReq>>

\* writeCookiesToFile, first half: fs.writeFileSync opens with flag 'w'
WriteCookiesOpen ==
    /\ pc = "writeCookies"
    /\ \/ cookieFile' = FileOf(<<>>) /\ pc' = "writeCookiesData" /\ UNCHANGED err
       \/ Fail("CredentialWriteFailed", "open cookieheader.json") /\ UNCHANGED cookieFile
    /\ UNCHANGED <<loginVars, call, proc, browser, acq, pageUrl, hash, token, cookies, bearerFile,
                   odinJson, pollVars, history, lastReq>>

\* writeCookiesToFile, second half
WriteCookiesData ==
    /\ pc = "writeCookiesData"
    /\ cookieFile' = FileOf(CookieFileContent(cookies))
    /\ history' = [history EXCEPT !.cookiesWritten = TRUE, !.lastCookies = cookies]
    /\ pc' = AfterCookies
    /\ UNCHANGED <<loginVars, call, proc, browser, acq, pageUrl, hash, token, cookies, err, bearerFile,
                   odinJson, pollVars, lastReq>>

\* if (options.updateConfig) updateOdinConfig(config, options.m3Url)
UpdateOdinConfig ==
    /\ pc = "updateConfig"
    /\ LET r == updateOdinConfig(odinJson, options.m3Url)
       IN  IF r.thrown
             THEN Fail("ConfigUpdateFailed", "Could not get proxy config for path") /\ UNCHANGED odinJson
             ELSE odinJson' = r.config /\ pc' = "close" /\ UNCHANGED err
    /\ UNCHANGED <<loginVars, call, proc, browser, acq, pageUrl, hash, token, cookies, storeVars,
                   pollVars, history, lastReq>>

\* await browser.close()
CloseBrowser ==
    /\ pc = "close"
    /\ browser' = "closed"
    /\ pc' = "done"
    /\ UNCHANGED <<loginVars, call, proc, acq, pageUrl, hash, token, cookies, err, storeVars, odinJson,
                   pollVars, history, lastReq>>

\* ----------------------------------------------------------- odin serve
\* a request on a route with onProxyReq = ODIN_MT_SET_ION_API_TOKEN
BearerRequest ==
    /\ lastReq' = [kind |-> "bearer", slot |-> bearerFile, result |-> setIONAPIToken(bearerFile)]
    /\ UNCHANGED <<pc, loginVars, call, proc, browser, acq, pageUrl, hash, token, cookies, err,
                   storeVars, odinJson, pollVars, history>>

\* a request on a route with onProxyReq = ODIN_MT_SET_MNE_COOKIES
CookieRequest ==
    /\ lastReq' = [kind |-> "cookie", slot |-> cookieFile, result |-> setMNECookies(cookieFile)]
    /\ UNCHANGED <<pc, loginVars, call, proc, browser, acq, pageUrl, hash, token, cookies, err,
                   storeVars, odinJson, pollVars, history>>

Next ==
    \/ StartLogin
    \/ AcquireBrowser
    \/ PrimaryPage
    \/ NavigateIfNeeded
    \/ WaitForAccessToken
    \/ WaitForPortalRoot
    \/ WriteTokenOpen
    \/ WriteTokenData
    \/ GotoMne
    \/ Tick
    \/ SampleDone
    \/ AwaitCookies
    \/ WriteCookiesOpen
    \/ WriteCookiesData
    \/ UpdateOdinConfig
    \/ CloseBrowser

\* the login command alone
Spec == Init /\ [][Next]_vars

\* the login command next to a running "odin serve --multi-tenant"
NextServe ==
    \/ Next
    \/ BearerRequest
    \/ CookieRequest

\* the served project has the odin.json "odin new" scaffolds: every route an object
InitServe == Init /\ odinJson = ScaffoldedConfig

SpecServe == InitServe /\ [][NextServe]_vars

\* ------------------------------------------------------------ properties
TransientCause     == "transient: page is navigating"
UnrecoverableCause == "unrecoverable: browser closed"

\* the header a bearer credential stands for: token_type, one space, access_token
ExpectedAuthorization(t) == ToStr(t.token_type) \o <<" ">> \o ToStr(t.access_token)

\* a cookie set contains a cookie named exactly JSESSIONID with path exactly /mne
ContainsMneSession(cs) ==
    \E i \in 1..Len(cs) : cs[i].name = <<"JSESSIONID">> /\ cs[i].path = <<"/mne">>

\* the step is the end of an interval callback
IsSampleDoneStep == inflight' = inflight - 1 /\ lastSample' # NoSample

\* C1: when an invocation of login() or loginCloud() has ended, by returning
\* or by rejecting, a browser it acquired is not left open.
C1_BrowserClosedAtEnd ==
    pc \in {"done", "failed"} => browser # "open"

\* C2: a login() run that failed with a capture-time failure has written
\* nothing: both credential slots hold what they held before the run.
C2_NoPartialSuccess ==
    (/\ pc = "failed"
     /\ flavour = "login"
     /\ err.type \in {"BrowserUnavailable", "NavigationTimeout",
                      "MalformedRedirect", "CookieCaptureFailed"})
      => (bearerFile = history.bearerBefore /\ cookieFile = history.cookieBefore)

\* C3: once a redirect fragment without access_token or without token_type
\* has been observed, the run has failed with MalformedRedirect; it never
\* holds a token made of that fragment, let alone writes it.
C3_MalformedRedirectFails ==
    (/\ hash # <<>>
     /\ \/ ~\E i \in 1..Len(hash) : hash[i] = "access_token"
        \/ ~\E i \in 1..Len(hash) : hash[i] = "token_type")
      => (pc = "failed" /\ err.type = "MalformedRedirect")

C5_AtomicWrite ==
    /\ lastReq.kind = "bearer" =>
          (lastReq.slot.exists => ParsesAsAuthorizationJson(lastReq.slot.data))
    /\ lastReq.kind = "cookie" =>
          (lastReq.slot.exists => lastReq.slot.data # <<>>)

\* C6: a local browser is launched only when the lookup of the container
\* host failed; when the host was found the result is an attached browser
\* or an error naming the host and the port that was tried.
C6_NoLocalFallback ==
    acq.called =>
      /\ acq.result.kind = "launched" => ~acq.lookup.ok
      /\ acq.lookup.ok =>
            \/ acq.result.kind = "attached"
            \/ /\ acq.result.kind = "error"
               /\ acq.result.host = acq.lookup.address
               /\ acq.result.port = getChromeDebugPort(acq.portEnv)

\* the host was found, its probe did not yield an endpoint, the call failed
C6_Witness ==
    /\ acq.called
    /\ acq.lookup.ok
    /\ acq.probe.thrown
    /\ acq.result.kind = "error"
    /\ acq.result.host = HostIP
    /\ acq.result.port = 9333
    /\ pc = "failed"

\* C7: a cookie read that failed transiently does not end the polling: the
\* promise of waitForMneCookies is never rejected with a transient cause.
C7_TransientReadIsNotFatal ==
    promise.state = "rejected" => promise.reason # TransientCause

\* C8: when a cookie read fails unrecoverably while waitForMneCookies is
\* pending, the promise is rejected with that cause and the interval is
\* cleared in the same step; a rejected promise stays rejected with the same
\* cause and no further callback is started.
C8_UnrecoverableAborts ==
    [][/\ (/\ IsSampleDoneStep
           /\ promise.state = "pending"
           /\ ~lastSample'.ok
           /\ lastSample'.cause = UnrecoverableCause)
            => (/\ promise' = [state |-> "rejected", value |-> <<>>,
                               reason |-> UnrecoverableCause]
                /\ ~timer')
       /\ (promise.state = "rejected" /\ promise' # NoPromise)
            => (promise' = promise /\ started' = started /\ ~timer')]_vars

\* rejected by an unrecoverable read, and a callback that was still in flight
\* then read the session cookie without completing the wait
C8_Witness ==
    /\ promise.state = "rejected"
    /\ promise.reason = UnrecoverableCause
    /\ ~timer
    /\ lastSample.ok
    /\ ContainsMneSession(lastSample.cookies)

\* C9: waitForMneCookies resolves exactly at the end of a callback whose
\* sample contains a cookie with name JSESSIONID and path /mne, with the
\* whole cookie set of that sample; a callback whose sample has no such
\* cookie leaves it pending, and a resolved promise keeps its cookie set.
C9_ResolvesWithFullSample ==
    [][/\ (IsSampleDoneStep /\ promise.state = "pending" /\ lastSample'.ok)
            => IF ContainsMneSession(lastSample'.cookies)
                 THEN promise' = [state |-> "resolved", value |-> lastSample'.cookies,
                                  reason |-> "none"]
                 ELSE promise' = promise
       /\ (promise.state # "resolved" /\ promise'.state = "resolved")
            => (/\ IsSampleDoneStep
                /\ promise.state = "pending"
                /\ ContainsMneSession(lastSample'.cookies)
                /\ promise'.value = lastSample'.cookies)
       /\ (promise.state = "resolved" /\ promise' # NoPromise)
            => promise' = promise]_vars

\* resolved by a later callback with a two-cookie set whose session cookie
\* comes second, after a callback that saw name and path on different cookies
C9_Witness ==
    /\ promise.state = "resolved"
    /\ started >= 2
    /\ Len(promise.value) = 2
    /\ promise.value[1].name = <<"X">>
    /\ promise.value[2].name = <<"JSESSIONID">>
    /\ lastSample.ok
    /\ ~ContainsMneSession(lastSample.cookies)
    /\ cookies = promise.value
    /\ pc = "writeCookies"

\* C10: whenever no write is under way, each slot holds exactly the
\* serialization of the argument of the last write to it (absent when it
\* was never written), whatever was written to the other slot since.
C10_LastWriterWins ==
    /\ pc # "writeTokenData" =>
          bearerFile = IF history.tokenWritten
                         THEN FileOf(TokenFileContent(history.lastToken))
                         ELSE AbsentFile
    /\ pc # "writeCookiesData" =>
          cookieFile = IF history.cookiesWritten
                         THEN FileOf(CookieFileContent(history.lastCookies))
                         ELSE AbsentFile

\* a second run replaced the token of the first and left its cookies alone
C10_Witness ==
    /\ pc = "done"
    /\ history.tokenWritten
    /\ history.cookiesWritten
    /\ history.bearerBefore.exists
    /\ bearerFile # history.bearerBefore
    /\ bearerFile = FileOf(TokenFileContent(history.lastToken))
    /\ cookieFile = history.cookieBefore
    /\ cookieFile = FileOf(CookieFileContent(history.lastCookies))


\* ------------------------------------------------ helpers called on their own
\* every variable but call, as in the initial state of a scaffolded project
Dormant ==
    /\ pc = "idle"
    /\ flavour = "login"
    /\ options = [m3Url |-> Undefined, updateConfig |-> FALSE]
    /\ browser = "none"
    /\ acq = NoAcq
    /\ pageUrl = Blank
    /\ hash = <<>>
    /\ token = NoToken
    /\ cookies = <<>>
    /\ err = NoErr
    /\ bearerFile = AbsentFile
    /\ cookieFile = AbsentFile
    /\ odinJson = ScaffoldedConfig
    /\ timer = FALSE
    /\ promise = NoPromise
    /\ started = 0
    /\ inflight = 0
    /\ lastSample = NoSample
    /\ history = [bearerBefore |-> AbsentFile, cookieBefore |-> AbsentFile,
                  tokenWritten |-> FALSE, lastToken |-> NoToken,
                  cookiesWritten |-> FALSE, lastCookies |-> <<>>]
    /\ lastReq = NoReq
    /\ proc = NoProc

dormantVars == <<pc, flavour, options, browser, acq, pageUrl, hash, token, cookies, err,
                 bearerFile, cookieFile, odinJson, timer, promise, started, inflight,
                 lastSample, history, lastReq, proc>>

\* sequences over S of length lo..hi
SeqsBetween(S, lo, hi) == UNION {[1..n -> S] : n \in lo..hi}

\* ---------------------------------------- waitForAccessToken on its own
TokenKeys   == {"access_token", "token_type", "expires_in"}
TokenValues == {"v1", "v2"}

\* the key=value pairs an identity provider puts in the fragment: the three
\* keys in any order, any of them repeated
PairLists ==
    {ps \in SeqsBetween([key : TokenKeys, value : TokenValues], 3, MaxPairs) :
        \A k \in TokenKeys : \E i \in 1..Len(ps) : ps[i].key = k}

\* location.hash of configuredRedirectUri/#k=v&k=v...
FragmentOf(ps) ==
    <<"#">> \o Join([i \in 1..Len(ps) |-> <<ps[i].key, "=", ps[i].value>>], <<"&">>)

InitParse ==
    /\ Dormant
    /\ \E ps \in PairLists :
          call = [fn |-> "waitForAccessToken", pairs |-> ps, hash |-> FragmentOf(ps),
                  returned |-> FALSE, result |-> NoToken]

\* the redirect is observed and waitForAccessToken returns
CallWaitForAccessToken ==
    /\ call.fn = "waitForAccessToken"
    /\ ~call.returned
    /\ call' = [call EXCEPT !.returned = TRUE, !.result = waitForAccessToken(call.hash)]
    /\ UNCHANGED dormantVars

NextParse == CallWaitForAccessToken

SpecParse == InitParse /\ [][NextParse]_vars

\* value of the last pair of ps whose key is k
LastValueOf(ps, k) ==
    LET last == CHOOSE i \in 1..Len(ps) :
                    /\ ps[i].key = k
                    /\ \A j \in (i + 1)..Len(ps) : ps[j].key # k
    IN  <<ps[last].value>>

\* C11: for a fragment with access_token, token_type and expires_in in any
\* order and with repeated keys, each field of the token waitForAccessToken
\* returns is the value of the last occurrence of its key.
C11_LastOccurrenceWins ==
    (call.fn = "waitForAccessToken" /\ call.returned) =>
        /\ call.result.access_token = LastValueOf(call.pairs, "access_token")
        /\ call.result.token_type   = LastValueOf(call.pairs, "token_type")
        /\ call.result.expires_in   = LastValueOf(call.pairs, "expires_in")

\* access_token given twice with different values, token_type first
C11_Witness ==
    /\ call.fn = "waitForAccessToken"
    /\ call.returned
    /\ Len(call.pairs) = 4
    /\ call.pairs[1] = [key |-> "token_type", value |-> "v1"]
    /\ call.pairs[2] = [key |-> "access_token", value |-> "v1"]
    /\ call.pairs[4] = [key |-> "access_token", value |-> "v2"]
    /\ call.result.access_token = <<"v2">>


\* C12: a request on a bearer-injection route made while
\* authorizationheader.json does not exist is forwarded, and forwarded
\* without an Authorization header.
C12_NoCredentialForwardsUnmodified ==
    (lastReq.kind = "bearer" /\ ~lastReq.slot.exists) =>
        (lastReq.result.outcome = "forwarded" /\ lastReq.result.header = Undefined)

\* a request before any login wrote the bearer slot, while a login is waiting
C12_Witness ==
    /\ lastReq.kind = "bearer"
    /\ ~lastReq.slot.exists
    /\ ~bearerFile.exists
    /\ lastReq.result.outcome = "forwarded"
    /\ pc = "waitCredential"


\* ------------------------------------------------- odin serve: route table
\* a route of readConfig().proxy: no entry, a plain string, or an object
NoHeaders == [h \in {} |-> <<>>]

NoEntry ==
    [kind |-> "undefined", target |-> Undefined, headers |-> NoHeaders, pathRewrite |-> NoRewrite,
     onProxyReq |-> Undefined, onProxyRes |-> Undefined, onError |-> Undefined]

StringEntry(target) ==
    [kind |-> "string", target |-> target, headers |-> NoHeaders, pathRewrite |-> NoRewrite,
     onProxyReq |-> Undefined, onProxyRes |-> Undefined, onError |-> Undefined]

ObjectEntry(target, headers, pathRewrite, onProxyReq) ==
    [kind |-> "object", target |-> target, headers |-> headers, pathRewrite |-> pathRewrite,
     onProxyReq |-> onProxyReq, onProxyRes |-> Undefined, onError |-> Undefined]

SetMneCookies          == <<"ODIN_MT_SET_MNE_COOKIES">>
SetIonApiToken         == <<"ODIN_MT_SET_ION_API_TOKEN">>
CheckIonAuthentication == <<"ODIN_MT_CHECK_ION_API_AUTHENTICATION">>
OnErrorPlaceholder     == <<"ODIN_MT_ON_ERROR">>

\* { Origin: target.toString(), Referer: `${target}/odin-dev-proxy`, ...headers }
SpreadHeaders_DefaultsWinMutant(target, headers) ==
    [h \in {"Origin", "Referer"} \cup DOMAIN headers |->
        IF h = "Origin" THEN target
        ELSE IF h = "Referer" THEN target \o <<"/odin-dev-proxy">>
        ELSE headers[h]]

SpreadHeaders(target, headers) ==
    [h \in {"Origin", "Referer"} \cup DOMAIN headers |->
        IF h \in DOMAIN headers THEN headers[h]
        ELSE IF h = "Origin" THEN target
        ELSE target \o <<"/odin-dev-proxy">>]

\* setHeaders(apiPath) of prepareProxyFile, on the route map
setHeaders(routes, apiPath) ==
    LET pathConfig == routes[apiPath]
    IN  IF pathConfig.kind = "object" /\ pathConfig.target \notin {Undefined, <<>>}
          THEN [routes EXCEPT ![apiPath].headers =
                                  SpreadHeaders(pathConfig.target, pathConfig.headers)]
          ELSE routes

\* a step of multiTenantProxyFile: r is [thrown, routes]; a step after a throw
\* does not run

\* Object.assign(proxyConfig[apiPath], {onProxyReq, onProxyRes, onError}):
\* TypeError on undefined, a throw-away wrapper for a string
addIonProxyPlaceholders(r, apiPath) ==
    IF r.thrown THEN r
    ELSE IF r.routes[apiPath].kind = "undefined" THEN [r EXCEPT !.thrown = TRUE]
    ELSE IF r.routes[apiPath].kind = "string" THEN r
    ELSE [r EXCEPT !.routes[apiPath].onProxyReq = SetIonApiToken,
                   !.routes[apiPath].onProxyRes = CheckIonAuthentication,
                   !.routes[apiPath].onError = OnErrorPlaceholder]

\* Object.assign(proxyConfig[apiPath], {onProxyReq, onError})
addMneProxyPlaceholders(r, apiPath) ==
    IF r.thrown THEN r
    ELSE IF r.routes[apiPath].kind = "undefined" THEN [r EXCEPT !.thrown = TRUE]
    ELSE IF r.routes[apiPath].kind = "string" THEN r
    ELSE [r EXCEPT !.routes[apiPath].onProxyReq = SetMneCookies,
                   !.routes[apiPath].onError = OnErrorPlaceholder]

rewritePath_OverwriteMutant(r, originalPath, newPath) ==
    IF r.thrown THEN r
    ELSE IF r.routes[originalPath].kind = "undefined" THEN [r EXCEPT !.thrown = TRUE]
    ELSE IF r.routes[originalPath].kind # "string"
      THEN [r EXCEPT !.routes[originalPath].pathRewrite = << <<"^", originalPath>>, newPath >>]
      ELSE r

\* rewritePath: pathRewrite = { [`^${originalPath}`]: newPath } unless one is there
rewritePath(r, originalPath, newPath) ==
    IF r.thrown THEN r
    ELSE IF r.routes[originalPath].kind = "undefined" THEN [r EXCEPT !.thrown = TRUE]
    ELSE IF r.routes[originalPath].kind # "string" /\ r.routes[originalPath].pathRewrite = NoRewrite
      THEN [r EXCEPT !.routes[originalPath].pathRewrite = << <<"^", originalPath>>, newPath >>]
      ELSE r

\* JSON text as its tokens: punctuation, string literals, and (after the
\* replacements) code
Punct(c)    == [kind |-> "punct", text |-> <<c>>]
Quoted(str) == [kind |-> "string", text |-> str]
Code(text)  == [kind |-> "code", text |-> text]

Member(key, value) == <<Quoted(<<key>>), Punct(":")>> \o value

PathOrder   == <<"/mne", "/m3api-rest", "/ca", "/ODIN_DEV_TENANT">>
HeaderOrder == <<"Origin", "Referer", "X-Api">>

\* JSON.stringify of the headers object
StringifyHeaders(headers) ==
    LET names == SelectSeq(HeaderOrder, LAMBDA h : h \in DOMAIN headers)
    IN  <<Punct("{")>>
          \o Join([i \in 1..Len(names) |-> Member(names[i], <<Quoted(headers[names[i]])>>)],
                  <<Punct(",")>>)
          \o <<Punct("}")>>

\* JSON.stringify of one route: a string, or an object with its defined members
StringifyRoute(route) ==
    IF route.kind = "string" THEN <<Quoted(route.target)>>
    ELSE LET Opt(present, key, value) == IF present THEN <<Member(key, value)>> ELSE <<>>
             members ==
                Opt(route.target # Undefined, "target", <<Quoted(route.target)>>)
                  \o Opt(route.headers # NoHeaders, "headers", StringifyHeaders(route.headers))
                  \o Opt(route.pathRewrite # NoRewrite, "pathRewrite",
                         <<Punct("{"), Quoted(route.pathRewrite[1]), Punct(":"),
                           Quoted(route.pathRewrite[2]), Punct("}")>>)
                  \o Opt(route.onProxyReq # Undefined, "onProxyReq", <<Quoted(route.onProxyReq)>>)
                  \o Opt(route.onProxyRes # Undefined, "onProxyRes", <<Quoted(route.onProxyRes)>>)
                  \o Opt(route.onError # Undefined, "onError", <<Quoted(route.onError)>>)
         IN  <<Punct("{")>> \o Join(members, <<Punct(",")>>) \o <<Punct("}")>>

\* JSON.stringify(proxyConfig)
JsonStringify(routes) ==
    LET paths == SelectSeq(PathOrder, LAMBDA p : routes[p].kind # "undefined")
    IN  <<Punct("{")>>
          \o Join([i \in 1..Len(paths) |-> Member(paths[i], StringifyRoute(routes[paths[i]]))],
                  <<Punct(",")>>)
          \o <<Punct("}")>>

\* text.replace(/\"NAME\"/g, code): every string literal that is exactly NAME
\* (a quote inside a literal is escaped and does not match)
ReplaceAll(text, name, code) ==
    [i \in 1..Len(text) |-> IF text[i] = Quoted(name) THEN Code(code) ELSE text[i]]

CallSetMNECookies   == <<"function (...args) { authenticator.setMNECookies(...args) }">>
CallSetIONAPIToken  == <<"function (...args) { authenticator.setIONAPIToken(...args) }">>
CallCheckIONAPIAuth == <<"function (...args) { authenticator.checkIONAPIAuthentication(...args) }">>
CallOnError         == <<"function (...args) { authenticator.onError(...args) }">>

configContent_CrossedMutant(routes) ==
    ReplaceAll(ReplaceAll(ReplaceAll(ReplaceAll(JsonStringify(routes),
        SetMneCookies, CallSetIONAPIToken),
        SetIonApiToken, CallSetMNECookies),
        CheckIonAuthentication, CallCheckIONAPIAuth),
        OnErrorPlaceholder, CallOnError)

\* configContent of multiTenantProxyFile: the four .replace calls on the JSON
configContent(routes) ==
    ReplaceAll(ReplaceAll(ReplaceAll(ReplaceAll(JsonStringify(routes),
        SetMneCookies, CallSetMNECookies),
        SetIonApiToken, CallSetIONAPIToken),
        CheckIonAuthentication, CallCheckIONAPIAuth),
        OnErrorPlaceholder, CallOnError)

\* multiTenantProxyFile: the route map and what it puts into odin_proxy.js for
\* CONFIG_PLACEHOLDER
multiTenantProxyFile(routes, useIonApi) ==
    LET mne == addMneProxyPlaceholders([thrown |-> FALSE, routes |-> routes], "/mne")
        r   == IF useIonApi
                 THEN rewritePath(
                        rewritePath(
                          addIonProxyPlaceholders(
                            addIonProxyPlaceholders(
                              addIonProxyPlaceholders(mne, "/m3api-rest"),
                              "/ca"),
                            "/ODIN_DEV_TENANT"),
                          "/m3api-rest", <<"/M3/m3api-rest">>),
                        "/ca", <<"/IDM">>)
                 ELSE addMneProxyPlaceholders(addMneProxyPlaceholders(mne, "/m3api-rest"), "/ca")
    IN  [thrown |-> r.thrown, routes |-> r.routes, name |-> "odin_proxy.js",
         content |-> IF r.thrown THEN <<>> ELSE configContent(r.routes)]

\* standardProxyFile
standardProxyFile(routes) ==
    [thrown |-> FALSE, routes |-> routes, name |-> "odin_proxy.json",
     content |-> JsonStringify(routes)]

\* prepareProxyFile
prepareProxyFile(routes, serveOptions) ==
    LET withHeaders ==
            setHeaders(setHeaders(setHeaders(setHeaders(routes,
                "/mne"), "/m3api-rest"), "/ca"), "/ODIN_DEV_TENANT")
    IN  IF serveOptions.multiTenant
          THEN multiTenantProxyFile(withHeaders, serveOptions.ionApi)
          ELSE standardProxyFile(withHeaders)

\* isProxyConfig
isProxyConfig(proxy) == proxy.kind \notin {"undefined", "array"}

\* what serveProject came to: the rejection, or the route map the dev server runs with
ServeThrown(message, proxy) ==
    [outcome |-> "thrown", message |-> message, proxy |-> proxy, name |-> "", content |-> <<>>]
Serving(proxy, name) ==
    [outcome |-> "serving", message |-> "", proxy |-> proxy, name |-> name, content |-> <<>>]

serveAngularProject(proxy, serveOptions) ==
    IF ~isProxyConfig(proxy)
      THEN ServeThrown("Proxy config is invalid.", proxy)
      ELSE LET proxyFile == prepareProxyFile(proxy.routes, serveOptions)
           IN  IF proxyFile.thrown
                 THEN ServeThrown("TypeError", proxy)
                 ELSE [Serving([kind |-> "map", routes |-> proxyFile.routes], proxyFile.name)
                         EXCEPT !.content = proxyFile.content]

serveBasicProject_PreparesMutant(proxy, serveOptions) ==
    IF isProxyConfig(proxy)
      THEN Serving([kind |-> "map",
                    routes |-> prepareProxyFile(proxy.routes, serveOptions).routes], "")
      ELSE Serving(proxy, "")

\* new WebpackDevServer(webpackCompiler, {...odinConfig}); server.listen
serveBasicProject(proxy, serveOptions) == Serving(proxy, "")

\* the route values and proxy configurations an odin.json can hold
ExplicitHeaders == [h \in {"Origin", "X-Api"} |-> IF h = "Origin" THEN <<"https://app.example">> ELSE <<"1">>]
ExplicitRewrite == << <<"^", "/old">>, <<"/new">> >>
Upstream        == <<"https://m3.example">>

RouteValues ==
    {ObjectEntry(Upstream, NoHeaders, NoRewrite, Undefined),
     ObjectEntry(Upstream, ExplicitHeaders, ExplicitRewrite, <<"ownHook">>),
     ObjectEntry(Undefined, [h \in {"X-Api"} |-> <<"1">>], NoRewrite, Undefined),
     StringEntry(Upstream),
     NoEntry}

ProxyConfigs ==
    {[kind |-> "map", routes |-> rs] : rs \in [RoutePaths -> RouteValues]}
      \cup {[kind |-> k, routes |-> [p \in RoutePaths |-> NoEntry]] : k \in {"undefined", "array"}}

ServeOptionsSet == [multiTenant : BOOLEAN, ionApi : BOOLEAN]

InitRoutes ==
    /\ Dormant
    /\ \E angular \in BOOLEAN, proxy \in ProxyConfigs, o \in ServeOptionsSet :
          call = [fn |-> "serveProject", isAngular |-> angular, proxy |-> proxy,
                  serveOptions |-> o, returned |-> FALSE, result |-> Serving(proxy, "")]

\* serveProject in an Angular project
ServeAngularProject ==
    /\ call.fn = "serveProject"
    /\ ~call.returned
    /\ call.isAngular
    /\ call' = [call EXCEPT !.returned = TRUE,
                            !.result = serveAngularProject(call.proxy, call.serveOptions)]
    /\ UNCHANGED dormantVars

\* serveProject in a basic project
ServeBasicProject ==
    /\ call.fn = "serveProject"
    /\ ~call.returned
    /\ ~call.isAngular
    /\ call' = [call EXCEPT !.returned = TRUE,
                            !.result = serveBasicProject(call.proxy, call.serveOptions)]
    /\ UNCHANGED dormantVars

NextRoutes ==
    \/ ServeAngularProject
    \/ ServeBasicProject

SpecRoutes == InitRoutes /\ [][NextRoutes]_vars


\* a serveProject call that came back with the dev server running
ServeReturned == call.fn = "serveProject" /\ call.returned /\ call.result.outcome = "serving"

\* the table was built by multiTenantProxyFile
MultiTenantTable == ServeReturned /\ call.isAngular /\ call.serveOptions.multiTenant

InRoute(p)  == call.proxy.routes[p]
OutRoute(p) == call.result.proxy.routes[p]

\* C13: in the route table of a multi-tenant serve, every route carrying a
\* credential-injection hook (bearer or cookie) also carries the
\* response-inspection hook.
C13_InjectedRoutesInspectResponse ==
    MultiTenantTable =>
        \A p \in RoutePaths :
            OutRoute(p).onProxyReq \in {<<"ODIN_MT_SET_MNE_COOKIES">>, <<"ODIN_MT_SET_ION_API_TOKEN">>}
                => OutRoute(p).onProxyRes = <<"ODIN_MT_CHECK_ION_API_AUTHENTICATION">>

\* the routes multi-tenant mode attaches hooks to
HookedPaths(serveOptions) ==
    IF ~serveOptions.multiTenant THEN {}
    ELSE IF serveOptions.ionApi THEN {"/mne", "/m3api-rest", "/ca", "/ODIN_DEV_TENANT"}
    ELSE {"/mne", "/m3api-rest", "/ca"}

\* C14: a malformed route table is fatal at startup: serveProject never starts
\* serving, on the Angular or the basic path, when the proxy configuration is
\* missing or an array, or when a route that needs hooks has no entry or is a
\* plain string.
C14_MalformedTableIsFatal ==
    ServeReturned =>
        /\ call.proxy.kind = "map"
        /\ \A p \in HookedPaths(call.serveOptions) : InRoute(p).kind = "object"

HasTarget(route) == route.kind = "object" /\ route.target # Undefined

\* the headers clause of C15 for a route with a target: explicit values are
\* kept, Origin and Referer point at the target when not configured
HeadersMerged(p) ==
    /\ \A h \in DOMAIN InRoute(p).headers : 
          h \in DOMAIN OutRoute(p).headers /\ OutRoute(p).headers[h] = InRoute(p).headers[h]
    /\ "Origin" \in DOMAIN OutRoute(p).headers
    /\ "Referer" \in DOMAIN OutRoute(p).headers
    /\ "Origin" \notin DOMAIN InRoute(p).headers => OutRoute(p).headers["Origin"] = InRoute(p).target
    /\ "Referer" \notin DOMAIN InRoute(p).headers
          => OutRoute(p).headers["Referer"] = InRoute(p).target \o <<"/odin-dev-proxy">>

PreparedProxyFile == ServeReturned /\ call.isAngular

\* C15 as stated: after prepareProxyFile a route with a target has the merged
\* headers, and a route that is a string or has no target is left unchanged.
C15_HeadersOriginal ==
    PreparedProxyFile =>
        \A p \in RoutePaths :
            IF HasTarget(InRoute(p)) THEN HeadersMerged(p) ELSE OutRoute(p) = InRoute(p)

\* C15: after prepareProxyFile a route with a target has headers in which every
\* configured header keeps its value and Origin and Referer point at the target
\* when not configured; a string route is left unchanged and an object route
\* with no target keeps its headers as configured (multi-tenant mode still
\* attaches its hooks and default rewrite to it).
C15_HeadersAmended ==
    PreparedProxyFile =>
        \A p \in RoutePaths :
            IF HasTarget(InRoute(p)) THEN HeadersMerged(p)
            ELSE IF InRoute(p).kind = "object" THEN OutRoute(p).headers = InRoute(p).headers
            ELSE OutRoute(p) = InRoute(p)

C15_Witness ==
    /\ PreparedProxyFile
    /\ call.serveOptions.multiTenant
    /\ \E p, q, s \in RoutePaths :
          /\ HasTarget(InRoute(p))
          /\ "Origin" \in DOMAIN InRoute(p).headers
          /\ OutRoute(p).headers["Origin"] = <<"https://app.example">>
          /\ OutRoute(p).headers["Referer"] = <<"https://m3.example", "/odin-dev-proxy">>
          /\ InRoute(q).kind = "object" /\ ~HasTarget(InRoute(q))
          /\ OutRoute(q) # InRoute(q)
          /\ OutRoute(q).headers = InRoute(q).headers
          /\ InRoute(s).kind = "string" /\ OutRoute(s) = InRoute(s)

\* C16: path rewrite is first-write-wins: in multi-tenant ION-API mode the
\* defaults (^/m3api-rest to /M3/m3api-rest, ^/ca to /IDM) are installed only
\* on a route with no pathRewrite and an explicit pathRewrite is kept; in every
\* other mode no pathRewrite changes.
C16_FirstWriteWins ==
    ServeReturned =>
        \A p \in RoutePaths :
            IF /\ call.isAngular /\ call.serveOptions.multiTenant /\ call.serveOptions.ionApi
               /\ p \in {"/m3api-rest", "/ca"}
               /\ InRoute(p).kind = "object"
               /\ InRoute(p).pathRewrite = <<>>
              THEN OutRoute(p).pathRewrite =
                     IF p = "/ca" THEN << <<"^", "/ca">>, <<"/IDM">> >>
                     ELSE << <<"^", "/m3api-rest">>, <<"/M3/m3api-rest">> >>
              ELSE OutRoute(p).pathRewrite = InRoute(p).pathRewrite

C16_Witness ==
    /\ MultiTenantTable
    /\ call.serveOptions.ionApi
    /\ InRoute("/m3api-rest").pathRewrite = << <<"^", "/old">>, <<"/new">> >>
    /\ OutRoute("/m3api-rest").pathRewrite = << <<"^", "/old">>, <<"/new">> >>
    /\ InRoute("/ca").pathRewrite = <<>>
    /\ OutRoute("/ca").pathRewrite = << <<"^", "/ca">>, <<"/IDM">> >>


\* ------------------------------------------ the credential-file writers
MaxCookies == 2

\* writeTokenToFile(token), start to return: fs.writeJsonSync(filePath, content)
writeTokenToFile_ExpiryMutant(t) ==
    FileOf(<<"{", "\"authorizationHeader\"", ":", "\"">>
             \o ToStr(t.token_type) \o <<" ">> \o ToStr(t.access_token)
             \o <<"\"", ",", "\"expirationTimestamp\"", ":", "\"">> \o ToStr(t.expires_in)
             \o <<"\"", "}", "\n">>)

writeTokenToFile(t) == FileOf(TokenFileContent(t))

\* writeCookiesToFile(cookies), start to return: fs.writeFileSync(filePath, content)
writeCookiesToFile(cs) == FileOf(CookieFileContent(cs))

TokenTypes   == {<<"Bearer">>, <<"bearer">>}
AccessTokens == {<<"tokA">>, <<"tokB">>}
Expiries     == {<<"3600">>, <<"7200">>, Undefined}

CookieValues ==
    {Cookie(n, v, p) : n \in {"JSESSIONID", "X"}, v \in {"abc", "1"}, p \in {"/mne", "/"}}

CookieLists == SeqsBetween(CookieValues, 0, MaxCookies)

filesDormantVars == <<pc, flavour, options, browser, acq, pageUrl, hash, token, cookies, err,
                      odinJson, timer, promise, started, inflight, lastSample, history,
                      lastReq, proc>>

InitFiles ==
    /\ Dormant
    /\ \E ty \in TokenTypes, at \in AccessTokens, cs \in CookieLists :
          call = [fn |-> "writeFiles",
                  token |-> [access_token |-> at, token_type |-> ty, expires_in |-> Undefined],
                  cookies |-> cs, tokenWrites |-> 0, cookieWrites |-> 0]

\* writeTokenToFile for a token with the given type and access token, any expiry
WriteTokenToFile ==
    /\ call.fn = "writeFiles"
    /\ \E e \in Expiries :
          LET t == [call.token EXCEPT !.expires_in = e]
          IN  /\ bearerFile' = writeTokenToFile(t)
              /\ call' = [call EXCEPT !.token = t,
                                      !.tokenWrites = IF @ < 2 THEN @ + 1 ELSE @]
    /\ UNCHANGED <<cookieFile, filesDormantVars>>

\* writeCookiesToFile for the cookie array
WriteCookiesToFile ==
    /\ call.fn = "writeFiles"
    /\ cookieFile' = writeCookiesToFile(call.cookies)
    /\ call' = [call EXCEPT !.cookieWrites = IF @ < 2 THEN @ + 1 ELSE @]
    /\ UNCHANGED <<bearerFile, filesDormantVars>>

NextFiles ==
    \/ WriteTokenToFile
    \/ WriteCookiesToFile

SpecFiles == InitFiles /\ [][NextFiles]_vars

\* `name=value;` per cookie, in order, one space between two of them
RECURSIVE CookieHeaderString(_)
CookieHeaderString(cs) ==
    IF Len(cs) = 0 THEN <<>>
    ELSE cs[1].name \o <<"=">> \o cs[1].value \o <<";">>
           \o (IF Len(cs) > 1 THEN <<" ">> \o CookieHeaderString(Tail(cs)) ELSE <<>>)

\* C17: writeCookiesToFile stores exactly name=value; per cookie in the given
\* order, separated by one space; the Cookie header read back from the slot is
\* that string, and writing the same sequence again leaves the content as it was.
C17_CookieFileRoundTrip ==
    (call.fn = "writeFiles" /\ call.cookieWrites >= 1) =>
        /\ cookieFile = [exists |-> TRUE, data |-> CookieHeaderString(call.cookies)]
        /\ setMNECookies(cookieFile).header = CookieHeaderString(call.cookies)

C17_Witness ==
    /\ call.fn = "writeFiles"
    /\ call.cookieWrites = 2
    /\ call.cookies = <<Cookie("JSESSIONID", "abc", "/mne"), Cookie("X", "1", "/")>>
    /\ cookieFile.data = <<"JSESSIONID", "=", "abc", ";", " ", "X", "=", "1", ";">>
    /\ setMNECookies(cookieFile).header = <<"JSESSIONID", "=", "abc", ";", " ", "X", "=", "1", ";">>

\* C18: writeTokenToFile stores a JSON object whose only field is
\* authorizationHeader = token_type, one space, access_token; expires_in is
\* not stored, so tokens differing only in expires_in store the same value.
C18_TokenFileHoldsHeaderOnly ==
    (call.fn = "writeFiles" /\ call.tokenWrites >= 1) =>
        bearerFile = [exists |-> TRUE,
                      data |-> <<"{", "\"authorizationHeader\"", ":", "\"">>
                                 \o call.token.token_type \o <<" ">> \o call.token.access_token
                                 \o <<"\"", "}", "\n">>]

C18_Witness ==
    /\ call.fn = "writeFiles"
    /\ call.tokenWrites = 2
    /\ call.token = [access_token |-> <<"tokA">>, token_type |-> <<"Bearer">>,
                     expires_in |-> <<"7200">>]
    /\ bearerFile.data = <<"{", "\"authorizationHeader\"", ":", "\"", "Bearer", " ", "tokA",
                           "\"", "}", "\n">>


\* ------------------------------------------------------------- urlJoin
MaxSegments == 3

\* segment.replace(/(^\/|\/$)/g, ''): one '/' off the start, one off the end
StripSlashes_LeadingOnlyMutant(segment) ==
    IF Len(segment) > 0 /\ segment[1] = "/" THEN Tail(segment) ELSE segment

StripSlashes(segment) ==
    LET a == IF Len(segment) > 0 /\ segment[1] = "/" THEN Tail(segment) ELSE segment
    IN  IF Len(a) > 0 /\ a[Len(a)] = "/" THEN SubSeq(a, 1, Len(a) - 1) ELSE a

\* segments.map(...).join('/')
urlJoin(segments) ==
    Join([i \in 1..Len(segments) |-> StripSlashes(segments[i])], <<"/">>)

\* a segment: its text between the slashes, with or without a '/' before and after
SegmentCores == {<<"https:", "/", "/", "host">>, <<"api">>, <<"v1">>}

Decorated(core, lead, trail) ==
    (IF lead THEN <<"/">> ELSE <<>>) \o core \o (IF trail THEN <<"/">> ELSE <<>>)

InitUrl ==
    /\ Dormant
    /\ \E n \in 1..MaxSegments :
         \E cores \in [1..n -> SegmentCores], lead \in [1..n -> BOOLEAN], trail \in [1..n -> BOOLEAN] :
            call = [fn |-> "urlJoin", cores |-> cores,
                    segments |-> [i \in 1..n |-> Decorated(cores[i], lead[i], trail[i])],
                    returned |-> FALSE, result |-> <<>>]

CallUrlJoin ==
    /\ call.fn = "urlJoin"
    /\ ~call.returned
    /\ call' = [call EXCEPT !.returned = TRUE, !.result = urlJoin(call.segments)]
    /\ UNCHANGED dormantVars

NextUrl == CallUrlJoin

SpecUrl == InitUrl /\ [][NextUrl]_vars

\* the cores with exactly one '/' between two of them
RECURSIVE SlashJoined(_)
SlashJoined(cores) ==
    IF Len(cores) = 1 THEN cores[1]
    ELSE cores[1] \o <<"/">> \o SlashJoined(Tail(cores))

\* C19: whichever of its segments carry a leading or a trailing '/', urlJoin
\* returns the stripped segments joined by exactly one '/': no duplicate slash
\* at a boundary and none missing.
C19_UrlJoinOneSlash ==
    (call.fn = "urlJoin" /\ call.returned) => call.result = SlashJoined(call.cores)

C19_Witness ==
    /\ call.fn = "urlJoin"
    /\ call.returned
    /\ call.segments = << <<"https:", "/", "/", "host", "/">>, <<"/", "api", "/">>, <<"/", "v1">> >>
    /\ call.result = <<"https:", "/", "/", "host", "/", "api", "/", "v1">>


\* ------------------------------------------------- the "odin login" command
\* exit(message, outputHelp) of cli.ts, on the process p
exit_ZeroMutant(p, message, outputHelp) ==
    [state |-> "exited", exitCode |-> 0,
     stderr |-> IF message # <<>> THEN Append(p.stderr, <<"ERROR:", " ">> \o message) ELSE p.stderr,
     help |-> outputHelp]

exit(p, message, outputHelp) ==
    [state |-> "exited", exitCode |-> 1,
     stderr |-> IF message # <<>> THEN Append(p.stderr, <<"ERROR:", " ">> \o message) ELSE p.stderr,
     help |-> outputHelp]

\* console.error(error)
ConsoleError(p, error) == [p EXCEPT !.stderr = Append(@, <<error.cause>>)]

\* the process ends once the action has returned and nothing is pending
Returned(p) == [p EXCEPT !.state = "exited", !.exitCode = 0]

\* .action(async (ionApiConfig, options) => { try { await login({...})
CliLogin ==
    /\ proc.state # "running"
    /\ StartLogin
    /\ flavour' = "login"

\* } catch (error) { console.error(error); exit('Login command failed'); }
CliCatch ==
    /\ pc = "failed"
    /\ proc.state = "running"
    /\ proc' = exit(ConsoleError(proc, err), <<"Login command failed">>, TRUE)
    /\ UNCHANGED <<pc, loginVars, call, browser, acq, pageUrl, hash, token, cookies, err,
                   storeVars, odinJson, pollVars, history, lastReq>>

\* await login({...}) resolved: the action returns
CliReturn ==
    /\ pc = "done"
    /\ proc.state = "running"
    /\ proc' = Returned(proc)
    /\ UNCHANGED <<pc, loginVars, call, browser, acq, pageUrl, hash, token, cookies, err,
                   storeVars, odinJson, pollVars, history, lastReq>>

NextCli ==
    \/ CliLogin
    \/ AcquireBrowser
    \/ PrimaryPage
    \/ NavigateIfNeeded
    \/ WaitForAccessToken
    \/ WriteTokenOpen
    \/ WriteTokenData
    \/ GotoMne
    \/ Tick
    \/ SampleDone
    \/ AwaitCookies
    \/ WriteCookiesOpen
    \/ WriteCookiesData
    \/ UpdateOdinConfig
    \/ CloseBrowser
    \/ CliCatch
    \/ CliReturn

\* the continuation of the awaited login() runs once the promise has settled
SpecCli == Init /\ [][NextCli]_vars /\ WF_vars(CliCatch) /\ WF_vars(CliReturn)

\* the process ended as a failed login has to end
ExitedOnFailure ==
    /\ proc.state = "exited"
    /\ proc.exitCode # 0
    /\ \E i \in 1..Len(proc.stderr) : proc.stderr[i] = <<err.cause>>

\* C20: every failure of the login command ends with the cause printed and a
\* non-zero exit code; a login that reaches the end of login() without error
\* does not exit non-zero.
C20_FailureExitsNonZero ==
    /\ [](proc.state = "exited" =>
            \/ pc = "failed" /\ ExitedOnFailure
            \/ pc = "done" /\ proc.exitCode = 0)
    /\ (pc = "failed" /\ proc.state = "running") ~> (pc = "failed" /\ ExitedOnFailure)

C20_Witness ==
    /\ pc = "failed"
    /\ err.cause # "none"
    /\ browser = "open"
    /\ proc.state = "exited"
    /\ proc.exitCode = 1
    /\ proc.help
    /\ Len(proc.stderr) = 2
    /\ proc.stderr[1] = <<err.cause>>
    /\ proc.stderr[2] = <<"ERROR:", " ", "Login command failed">>


\* ------------------------------------------------ the order of login steps
\* page.goto was issued in this step: the page moved, or the goto rejected
GotoIssued == pageUrl' # pageUrl \/ (pc' = "failed" /\ err'.type = "NavigationTimeout")

\* C21: login() and loginCloud() navigate the primary page to the login URL if
\* and only if the page's URL differs from it, and either way the page is at
\* the login URL when the wait for the credential begins.
C21_NavigateIffElsewhere ==
    [][pc = "navigate" =>
          /\ GotoIssued <=> (pageUrl # (IF flavour = "login" THEN AuthUrl ELSE PortalUrl))
          /\ pc' = "waitCredential" => pageUrl' = (IF flavour = "login" THEN AuthUrl ELSE PortalUrl)]_vars

C21_Witness ==
    /\ pc = "waitCredential"
    /\ flavour = "cloud"
    /\ browser = "open"
    /\ pageUrl = PortalUrl

\* what this run of login() has behind it
RedirectObserved  == hash # <<>> /\ token = waitForAccessToken(hash)
BearerSlotWritten == RedirectObserved /\ bearerFile = FileOf(TokenFileContent(token))
CookieObserved    == promise.state = "resolved" /\ cookies = promise.value /\ HasSessionCookie(cookies)
CookieSlotWritten == CookieObserved /\ cookieFile = FileOf(CookieFileContent(cookies))

\* C22: in every run of login(): browser acquired, page at the authorization
\* URL, redirect observed, bearer slot written, then only with m3Url the
\* navigation to m3Url/mne, session cookie observed, cookie slot written, then
\* only with updateConfig odin.json updated, then the browser closed; a slot is
\* written only after its capture, the cookie slot never before the bearer slot.
C22_LoginStepOrder ==
    [][flavour = "login" /\ flavour' = "login" /\ pc \notin {"idle", "done", "failed"} =>
          /\ hash' # hash => browser = "open" /\ pageUrl = AuthUrl
          /\ bearerFile' # bearerFile => RedirectObserved /\ browser = "open"
          /\ pageUrl' = MneUrl(M3Url) /\ pageUrl # pageUrl' =>
                options.m3Url = M3Url /\ BearerSlotWritten
          /\ promise'.state = "resolved" /\ promise.state # "resolved" =>
                pageUrl = MneUrl(M3Url) /\ BearerSlotWritten
          /\ cookieFile' # cookieFile =>
                options.m3Url # Undefined /\ CookieObserved /\ BearerSlotWritten
          /\ odinJson' # odinJson =>
                /\ options.updateConfig
                /\ BearerSlotWritten
                /\ options.m3Url # Undefined => CookieSlotWritten
          /\ browser' = "closed" =>
                /\ BearerSlotWritten
                /\ options.m3Url # Undefined => CookieSlotWritten
                /\ options.updateConfig => odinJson = updateOdinConfig(odinJson, options.m3Url).config]_vars

C22_Witness ==
    /\ pc = "done"
    /\ flavour = "login"
    /\ options = [m3Url |-> M3Url, updateConfig |-> TRUE]
    /\ browser = "closed"
    /\ BearerSlotWritten
    /\ CookieSlotWritten
    /\ odinJson.routes["/mne"].target = M3Url


\* the injection hook multi-tenant mode is to put on a route
ExpectedInjection(p, ionApi) ==
    IF p = "/mne" THEN <<"ODIN_MT_SET_MNE_COOKIES">>
    ELSE IF ionApi THEN <<"ODIN_MT_SET_ION_API_TOKEN">>
    ELSE IF p = "/ODIN_DEV_TENANT" THEN <<"<undefined>">>
    ELSE <<"ODIN_MT_SET_MNE_COOKIES">>

IsInjection(hook) == hook \in {<<"ODIN_MT_SET_MNE_COOKIES">>, <<"ODIN_MT_SET_ION_API_TOKEN">>}

\* C23: in the multi-tenant route table /mne gets the cookie-injection hook;
\* with ionApi /m3api-rest, /ca and /ODIN_DEV_TENANT get the bearer-injection
\* hook; without it /m3api-rest and /ca get the cookie-injection hook and
\* /ODIN_DEV_TENANT none. A configured onProxyReq is replaced, and a route
\* with an injection hook has the on-error hook.
C23_HookAssignment ==
    MultiTenantTable =>
        \A p \in RoutePaths :
            /\ IF ExpectedInjection(p, call.serveOptions.ionApi) # <<"<undefined>">>
                 THEN OutRoute(p).onProxyReq = ExpectedInjection(p, call.serveOptions.ionApi)
                 ELSE ~IsInjection(OutRoute(p).onProxyReq)
            /\ IsInjection(OutRoute(p).onProxyReq) => OutRoute(p).onError = <<"ODIN_MT_ON_ERROR">>


\* the four placeholder names and the hook call each one stands for
HookCallOf(name) ==
    IF name = "ODIN_MT_SET_MNE_COOKIES"
      THEN "function (...args) { authenticator.setMNECookies(...args) }"
    ELSE IF name = "ODIN_MT_SET_ION_API_TOKEN"
      THEN "function (...args) { authenticator.setIONAPIToken(...args) }"
    ELSE IF name = "ODIN_MT_CHECK_ION_API_AUTHENTICATION"
      THEN "function (...args) { authenticator.checkIONAPIAuthentication(...args) }"
    ELSE "function (...args) { authenticator.onError(...args) }"

PlaceholderNames ==
    {"ODIN_MT_SET_MNE_COOKIES", "ODIN_MT_SET_ION_API_TOKEN",
     "ODIN_MT_CHECK_ION_API_AUTHENTICATION", "ODIN_MT_ON_ERROR"}

\* positions of text where the quoted name, respectively the hook call, stands
QuotedAt(text, name) ==
    {i \in 1..Len(text) : text[i].kind = "string" /\ text[i].text = <<name>>}
CalledAt(text, name) ==
    {i \in 1..Len(text) : text[i].kind = "code" /\ text[i].text = <<HookCallOf(name)>>}

\* the text with every hook call put back to its quoted placeholder name
Unhooked(text) ==
    [i \in 1..Len(text) |->
        IF text[i].kind = "code" /\ \E n \in PlaceholderNames : text[i].text = <<HookCallOf(n)>>
          THEN [kind |-> "string",
                text |-> <<CHOOSE n \in PlaceholderNames : text[i].text = <<HookCallOf(n)>> >>]
          ELSE text[i]]

\* C24: in the serialized multi-tenant proxy file every placeholder name that
\* is a JSON string value is replaced by a call to its own hook: no quoted
\* placeholder name remains and none is replaced by another placeholder's hook.
C24_PlaceholdersReplaced ==
    MultiTenantTable =>
        /\ \A n \in PlaceholderNames : QuotedAt(call.result.content, n) = {}
        /\ \A n \in PlaceholderNames :
              Cardinality(CalledAt(call.result.content, n))
                  = Cardinality({pf \in RoutePaths \X {"onProxyReq", "onProxyRes", "onError"} :
                                     OutRoute(pf[1])[pf[2]] = <<n>>})
        /\ Unhooked(call.result.content) = JsonStringify(call.result.proxy.routes)

C24_Witness ==
    /\ MultiTenantTable
    /\ call.serveOptions.ionApi
    /\ \A p \in RoutePaths : OutRoute(p).kind = "object"
    /\ \A n \in PlaceholderNames : CalledAt(call.result.content, n) # {}
    /\ \A n \in PlaceholderNames : QuotedAt(call.result.content, n) = {}


\* a step that starts a new invocation
NewRun == pc \in {"idle", "done", "failed"} /\ pc' \in {"acquire", "failed"} /\ promise' = NoPromise

Settled == promise.state \in {"resolved", "rejected"}

\* C25: the promise of waitForMneCookies settles at most once, and once it has
\* settled the interval is cleared and no new sample is started; a sample that
\* was started before and finishes after changes neither the outcome nor the
\* cookie set returned.
C25_SettlesOnce ==
    [][Settled /\ ~NewRun =>
          /\ ~timer /\ ~timer'
          /\ started' = started
          /\ promise' = promise
          /\ cookies' # cookies => cookies' = promise.value]_vars

C25_Witness ==
    /\ promise.state = "resolved"
    /\ HasSessionCookie(promise.value)
    /\ started >= 2
    /\ inflight = 0
    /\ ~lastSample.ok
    /\ pc = "writeCookies"
    /\ cookies = promise.value

FilesAndConfig == <<bearerFile, cookieFile, odinJson>>

\* C26: each login flavour writes only its own slots: login() without m3Url
\* never modifies the cookie slot, without updateConfig never odin.json;
\* loginCloud() never modifies the bearer slot or odin.json and writes the
\* cookie slot only after the portal root became visible and the navigation to
\* m3Url/mne was issued.
C26_OwnSlotsOnly ==
    [][/\ flavour = "login" /\ options.m3Url = <<"<undefined>">> => cookieFile' = cookieFile
       /\ flavour = "login" /\ ~options.updateConfig => odinJson' = odinJson
       /\ flavour = "cloud" =>
             /\ bearerFile' = bearerFile
             /\ odinJson' = odinJson
             /\ cookieFile' # cookieFile => pageUrl = <<"https://m3.example", "/mne">>
             /\ pageUrl' = <<"https://m3.example", "/mne">> /\ pageUrl' # pageUrl => pc = "gotoMne"
             /\ pc' = "gotoMne" /\ pc # "gotoMne" => pc = "waitCredential" /\ pageUrl = PortalUrl]_vars

C26_Witness ==
    /\ pc = "done"
    /\ flavour = "cloud"
    /\ cookies # <<>>
    /\ cookieFile = FileOf(CookieFileContent(cookies))
    /\ cookieFile # history.cookieBefore
    /\ bearerFile = history.bearerBefore
    /\ bearerFile = AbsentFile
    /\ odinJson = ScaffoldedConfig


HookFields == {"onProxyReq", "onProxyRes", "onError"}

\* no hook was attached to the route: its hook members are as configured and
\* none is a placeholder
NoHookAttached(p) ==
    \A f \in HookFields :
        /\ OutRoute(p)[f] = InRoute(p)[f]
        /\ \A n \in PlaceholderNames : OutRoute(p)[f] # <<n>>

\* C27: hooks are attached only in an Angular project with multiTenant. An
\* Angular serve without multiTenant writes a plain JSON route table with no
\* hook on any route, headers still augmented; a basic serve ignores
\* multiTenant and ionApi and passes the configured proxy on with no hook, no
\* header augmentation and no path rewrite.
C27_HooksOnlyAngularMultiTenant ==
    (ServeReturned /\ ~(call.isAngular /\ call.serveOptions.multiTenant)) =>
        IF call.isAngular
          THEN /\ call.result.name = "odin_proxy.json"
               /\ call.result.content = JsonStringify(call.result.proxy.routes)
               /\ \A i \in 1..Len(call.result.content) : call.result.content[i].kind # "code"
               /\ \A p \in RoutePaths :
                     /\ NoHookAttached(p)
                     /\ OutRoute(p).pathRewrite = InRoute(p).pathRewrite
                     /\ HasTarget(InRoute(p)) => HeadersMerged(p)
          ELSE call.result.proxy = call.proxy

C27_Witness ==
    /\ ServeReturned
    /\ ~call.isAngular
    /\ call.serveOptions = [multiTenant |-> TRUE, ionApi |-> TRUE]
    /\ call.proxy.kind = "map"
    /\ \A p \in RoutePaths : HasTarget(InRoute(p)) /\ InRoute(p).headers = NoHeaders
    /\ call.result.proxy = call.proxy


\* ---------------------------------------------- updateOdinConfig on its own
\* every variable but odinJson and call as before the first invocation
DormantButConfig ==
    /\ pc = "idle"
    /\ flavour = "login"
    /\ options = [m3Url |-> Undefined, updateConfig |-> FALSE]
    /\ browser = "none"
    /\ acq = NoAcq
    /\ pageUrl = Blank
    /\ hash = <<>>
    /\ token = NoToken
    /\ cookies = <<>>
    /\ err = NoErr
    /\ bearerFile = AbsentFile
    /\ cookieFile = AbsentFile
    /\ timer = FALSE
    /\ promise = NoPromise
    /\ started = 0
    /\ inflight = 0
    /\ lastSample = NoSample
    /\ history = [bearerBefore |-> AbsentFile, cookieBefore |-> AbsentFile,
                  tokenWritten |-> FALSE, lastToken |-> NoToken,
                  cookiesWritten |-> FALSE, lastCookies |-> <<>>]
    /\ lastReq = NoReq
    /\ proc = NoProc

configDormantVars == <<pc, flavour, options, browser, acq, pageUrl, hash, token, cookies, err,
                       bearerFile, cookieFile, timer, promise, started, inflight, lastSample,
                       history, lastReq, proc>>

\* the odin.json files updateOdinConfig can find
StoredRoutes ==
    {ObjectRoute(OldTarget, NoRewrite), ObjectRoute(OldTarget, <<"^/old", "/new">>),
     StringRoute(OldTarget)}

StoredConfigs ==
    {MapConfig(rs) : rs \in [RoutePaths -> StoredRoutes]}
      \cup {NoProxyConfig, [proxy |-> "array", routes |-> NoProxyConfig.routes]}

InitConfig ==
    /\ DormantButConfig
    /\ \E c \in StoredConfigs, m \in {Undefined, M3Url} :
          /\ odinJson = c
          /\ call = [fn |-> "updateOdinConfig", stored |-> c, m3Url |-> m,
                     returned |-> FALSE, thrown |-> FALSE]

\* updateOdinConfig(config, m3Url): readConfig, the setTarget calls, writeConfig
CallUpdateOdinConfig ==
    /\ call.fn = "updateOdinConfig"
    /\ ~call.returned
    /\ LET r == updateOdinConfig(odinJson, call.m3Url)
       IN  /\ odinJson' = IF r.thrown THEN odinJson ELSE r.config
           /\ call' = [call EXCEPT !.returned = TRUE, !.thrown = r.thrown]
    /\ UNCHANGED configDormantVars

NextConfig == CallUpdateOdinConfig

SpecConfig == InitConfig /\ [][NextConfig]_vars

\* the routes updateOdinConfig has to retarget
MustRetarget(m3Url) ==
    IF m3Url = <<"<undefined>">> THEN {"/ODIN_DEV_TENANT", "/m3api-rest"}
    ELSE {"/ODIN_DEV_TENANT", "/m3api-rest", "/mne", "/ca"}

\* C28: updateOdinConfig is all-or-nothing: with the proxy missing or an array,
\* or a route it must retarget configured as a string, it throws and odin.json
\* is not written. On success /ODIN_DEV_TENANT targets the ION API URL with
\* rewrite ^/ODIN_DEV_TENANT to empty; with m3Url /m3api-rest, /mne and /ca
\* target m3Url, without it only /m3api-rest is retargeted, to the ION API URL.
C28_UpdateAllOrNothing ==
    (call.fn = "updateOdinConfig" /\ call.returned) =>
        IF \/ call.stored.proxy # "map"
           \/ \E p \in MustRetarget(call.m3Url) : call.stored.routes[p].kind = "string"
          THEN call.thrown /\ odinJson = call.stored
          ELSE /\ ~call.thrown
               /\ odinJson.proxy = "map"
               /\ \A p \in RoutePaths :
                     /\ odinJson.routes[p].kind = call.stored.routes[p].kind
                     /\ odinJson.routes[p].target =
                           IF p \notin MustRetarget(call.m3Url) THEN call.stored.routes[p].target
                           ELSE IF p = "/ODIN_DEV_TENANT" \/ call.m3Url = <<"<undefined>">>
                             THEN <<"https://ion.example", "/", "TENANT">>
                           ELSE call.m3Url
                     /\ odinJson.routes[p].pathRewrite =
                           IF p = "/ODIN_DEV_TENANT" THEN <<"^/ODIN_DEV_TENANT", "">>
                           ELSE call.stored.routes[p].pathRewrite

C28_Witness ==
    /\ call.fn = "updateOdinConfig"
    /\ call.returned
    /\ call.thrown
    /\ call.m3Url = M3Url
    /\ call.stored.proxy = "map"
    /\ call.stored.routes["/ODIN_DEV_TENANT"].kind = "object"
    /\ call.stored.routes["/m3api-rest"].kind = "object"
    /\ call.stored.routes["/mne"].kind = "object"
    /\ call.stored.routes["/ca"].kind = "string"
    /\ odinJson = call.stored


\* ------------------------------------ pairs with no '=' or more than one
\* what can follow the key of a pair
PairTails ==
    {<<>>, <<"=">>, <<"=", "abc">>, <<"=", "abc", "=">>, <<"=", "abc", "=", "=">>,
     <<"=", "abc", "=", "x">>, <<"=", "=", "x">>}

InitPairs ==
    /\ Dormant
    /\ \E tails \in [TokenKeys -> PairTails] :
          call = [fn |-> "waitForAccessToken pairs", tails |-> tails,
                  hash |-> <<"#", "access_token">> \o tails["access_token"]
                             \o <<"&", "token_type">> \o tails["token_type"]
                             \o <<"&", "expires_in">> \o tails["expires_in"],
                  returned |-> FALSE, result |-> NoToken]

\* the redirect is observed and waitForAccessToken returns
CallWaitForAccessTokenPairs ==
    /\ call.fn = "waitForAccessToken pairs"
    /\ ~call.returned
    /\ call' = [call EXCEPT !.returned = TRUE, !.result = waitForAccessToken(call.hash)]
    /\ UNCHANGED dormantVars

NextPairs == CallWaitForAccessTokenPairs

SpecPairs == InitPairs /\ [][NextPairs]_vars

\* the text between the first and the second '=' of what follows the key;
\* no value when nothing follows
BetweenFirstTwoEquals(tail) ==
    IF tail = <<>> THEN <<"<undefined>">>
    ELSE LET rest == Tail(tail)
             stop == IF \E i \in 1..Len(rest) : rest[i] = "="
                       THEN CHOOSE i \in 1..Len(rest) :
                               rest[i] = "=" /\ \A j \in 1..(i - 1) : rest[j] # "="
                       ELSE Len(rest) + 1
         IN  SubSeq(rest, 1, stop - 1)

\* C29: each '&'-separated pair is split at every '=': the key is the text
\* before the first '=', the value only the text between the first and the
\* second '=', so a value containing '=' is stored cut at its first '=' and a
\* pair without '=' yields a key with no value.
C29_ValueCutAtSecondEquals ==
    (call.fn = "waitForAccessToken pairs" /\ call.returned) =>
        /\ call.result.access_token = BetweenFirstTwoEquals(call.tails["access_token"])
        /\ call.result.token_type   = BetweenFirstTwoEquals(call.tails["token_type"])
        /\ call.result.expires_in   = BetweenFirstTwoEquals(call.tails["expires_in"])

C29_Witness ==
    /\ call.fn = "waitForAccessToken pairs"
    /\ call.returned
    /\ call.hash = <<"#", "access_token", "=", "abc", "=", "=", "&", "token_type",
                     "&", "expires_in", "=", "abc", "=", "x">>
    /\ call.result = [access_token |-> <<"abc">>, token_type |-> <<"<undefined>">>,
                      expires_in |-> <<"abc">>]


\* ------------------------------------------- getChromeDebugPort on its own
MaxPortLen == 5

PortChars == {"0", "3", "5", "6", "-", "a", " "}

\* CHROME_DEBUG_PORT: unset, empty, or any text over PortChars
PortTexts == {<<"<undefined>">>} \cup SeqsBetween(PortChars, 0, MaxPortLen)

InitPort ==
    /\ Dormant
    /\ \E t \in PortTexts :
          call = [fn |-> "getChromeDebugPort", portEnv |-> t, returned |-> FALSE, result |-> 0]

CallGetChromeDebugPort ==
    /\ call.fn = "getChromeDebugPort"
    /\ ~call.returned
    /\ call' = [call EXCEPT !.returned = TRUE, !.result = getChromeDebugPort(call.portEnv)]
    /\ UNCHANGED dormantVars

NextPort == CallGetChromeDebugPort

SpecPort == InitPort /\ [][NextPort]_vars

\* the number a run of decimal digits denotes, by place value
RECURSIVE PlaceValue(_)
PlaceValue(digits) ==
    IF Len(digits) = 0 THEN 0
    ELSE 10 * PlaceValue(SubSeq(digits, 1, Len(digits) - 1))
           + (CHOOSE v \in 0..9 : <<"0", "1", "2", "3", "4", "5", "6", "7", "8", "9">>[v + 1]
                                      = digits[Len(digits)])

\* the text is white space, an optional sign, then n digits and anything after
IsInteger(text, firstDigit, n) ==
    /\ n >= 1
    /\ firstDigit + n - 1 <= Len(text)
    /\ \A i \in firstDigit..(firstDigit + n - 1) : text[i] \in DigitChars
    /\ firstDigit + n <= Len(text) => text[firstDigit + n] \notin DigitChars
    /\ \E signs \in 0..1 :
          /\ firstDigit - signs >= 1
          /\ signs = 1 => text[firstDigit - 1] \in {"-", "+"}
          /\ \A i \in 1..(firstDigit - signs - 1) : text[i] = " "

\* the integer the text parses to, if it starts with one
IntegerOf(text) ==
    IF text # <<"<undefined>">> /\ \E f \in 1..Len(text), n \in 1..Len(text) : IsInteger(text, f, n)
      THEN LET fn == CHOOSE fn \in (1..Len(text)) \X (1..Len(text)) : IsInteger(text, fn[1], fn[2])
               f  == fn[1]
               n  == fn[2]
           IN  [parses |-> TRUE,
                value |-> (IF f > 1 /\ text[f - 1] = "-" THEN -1 ELSE 1)
                             * PlaceValue(SubSeq(text, f, f + n - 1))]
      ELSE [parses |-> FALSE, value |-> 0]

\* C30: getChromeDebugPort returns a port in 1..65535: the configured value
\* when it parses to an integer in that range, and 9222 in every other case
\* (unset, empty, non-numeric, 0, negative, 65536 or more).
C30_PortInRange ==
    (call.fn = "getChromeDebugPort" /\ call.returned) =>
        /\ call.result \in 1..65535
        /\ call.result =
              IF IntegerOf(call.portEnv).parses /\ IntegerOf(call.portEnv).value \in 1..65535
                THEN IntegerOf(call.portEnv).value
                ELSE 9222

C30_Witness ==
    /\ call.fn = "getChromeDebugPort"
    /\ call.returned
    /\ call.portEnv = <<"6", "5", "5", "3", "5">>
    /\ call.result = 65535

====
